---------------------------- MODULE Spec2Model ----------------------------
(***************************************************************************)
(* The frame orchestrator of the engine (LveRenderer) together with the    *)
(* window it reads (LveWindow) and the swapchain it owns (LveSwapChain).   *)
(*                                                                         *)
(* The program has one thread.  A state of the model is the state of the   *)
(* window and the renderer objects between two calls of the driver, or at  *)
(* the one place where a call blocks: glfwWaitEvents() inside              *)
(* recreateSwapChain().  Every handler is a function from the state record *)
(* to the state record, written in the order of the statements of the      *)
(* code; an action applies one handler.  assert() is modelled as compiled  *)
(* in (a debug build): a failed assertion aborts the process.  A thrown    *)
(* std::runtime_error leaves the renderer, reaches main() and ends the     *)
(* process.                                                                *)
(*                                                                         *)
(* The descriptor classes (LveDescriptorSetLayout and its Builder,         *)
(* LveDescriptorPool, LveDescriptorWriter) are a second, independent part: *)
(* their state is in variables of their own, and they have their own       *)
(* specifications, SpecLayout, SpecPool and SpecWriter.                    *)
(***************************************************************************)
EXTENDS Integers, Sequences, FiniteSets, TLC

(***************************************************************************)
(* Program constants and bounds.                                           *)
(***************************************************************************)
\* LveSwapChain::MAX_FRAMES_IN_FLIGHT (lve_swap_chain.hpp)
MAX_FRAMES_IN_FLIGHT == 2

\* the window's width and height range over 0 .. MaxDim
MaxDim == 2

\* the driver begins at most MaxFrames frames before it closes
MaxFrames == 2

\* the number of loop iterations of the end-to-end run (SpecRun)
RunIterations == 100

\* the driver's loop begins at most MaxFlightFrames frames (SpecFlight)
MaxFlightFrames == 3

Dims == 0 .. MaxDim
Slots == 0 .. (MAX_FRAMES_IN_FLIGHT - 1)

\* VkResult values that acquireNextImage / submitCommandBuffers hand back
VK_SUCCESS == "VK_SUCCESS"
VK_SUBOPTIMAL_KHR == "VK_SUBOPTIMAL_KHR"
VK_ERROR_OUT_OF_DATE_KHR == "VK_ERROR_OUT_OF_DATE_KHR"
VK_ERROR_DEVICE_LOST == "VK_ERROR_DEVICE_LOST"
VK_ERROR_SURFACE_LOST_KHR == "VK_ERROR_SURFACE_LOST_KHR"
VkResults ==
    {VK_SUCCESS, VK_SUBOPTIMAL_KHR, VK_ERROR_OUT_OF_DATE_KHR,
     VK_ERROR_DEVICE_LOST, VK_ERROR_SURFACE_LOST_KHR}

\* the formats a newly constructed swapchain can come out with
ImageFormats == {"F1", "F2"}
DepthFormats == {"D1", "D2"}
Formats == [imageFormat : ImageFormats, depthFormat : DepthFormats]

\* the formats of the surface when the program starts; they can be any
\* of Formats at every later construction
FirstFormats == {[imageFormat |-> "F1", depthFormat |-> "D1"]}

\* the value of an empty std::unique_ptr<LveSwapChain>
nullptr ==
    [width |-> 0, height |-> 0, imageFormat |-> "nullptr", depthFormat |-> "nullptr"]

\* the messages of the assertions and of the exceptions
NoError == "none"
AssertBeginFrame == "Can't call beginFrame while already in progress."
AssertEndFrame == "Can't call endFrame while frame is not in progress."
AssertBeginPassFrame == "Can't call beginSwapChainRenderPass if frame is not in progress."
AssertBeginPassBuffer == "Can't begin render pass on command buffer from a different frame."
AssertEndPassFrame == "Can't call endSwapChainRenderPass if frame is not in progress."
AssertEndPassBuffer == "Can't end render pass on command buffer from a different frame."
ErrFormatChanged == "Swap chain image(or dept) format has changed."
ErrCreateSwapChain == "failed to create swap chain!"
ErrAllocate == "Failed to allocate command buffers!"
ErrAcquire == "Failed to acquire swap chain image!"
ErrBeginRecording == "Failed to begin recording command buffer!"
ErrEndRecording == "Failed to record command buffer!"
ErrPresent == "Failed to present swap chain image!"
\* how the process ends: main's two return values, and abort() (SIGABRT)
EXIT_SUCCESS == "EXIT_SUCCESS"
EXIT_FAILURE == "EXIT_FAILURE"
SIGABRT == "SIGABRT"

\* the state of a fence: signaled, or unsignaled until the GPU has finished
\* the work that was submitted with it, the commands of buffer cb
Signaled == [signaled |-> TRUE, buffer |-> -1]
Guarding(cb) == [signaled |-> FALSE, buffer |-> cb]

Assertions ==
    {AssertBeginFrame, AssertEndFrame, AssertBeginPassFrame,
     AssertBeginPassBuffer, AssertEndPassFrame, AssertEndPassBuffer}
Exceptions ==
    {ErrFormatChanged, ErrCreateSwapChain, ErrAllocate, ErrAcquire,
     ErrBeginRecording, ErrEndRecording, ErrPresent}

(***************************************************************************)
(* Constants and bounds of the descriptor classes.                         *)
(***************************************************************************)
\* addBinding is called with binding indices 0 .. MaxBinding
MaxBinding == 1

\* pools are built with maxSets in 1 .. MaxSets
MaxSets == 2

\* pools are built with 1 .. MaxPoolSize descriptors of each type
MaxPoolSize == 2

\* allocateDescriptor is called at most MaxAllocs times
MaxAllocs == 4

\* a writer queues at most MaxWrites writes
MaxWrites == 2

BindingIndices == 0 .. MaxBinding
DescriptorTypes ==
    {"VK_DESCRIPTOR_TYPE_UNIFORM_BUFFER",
     "VK_DESCRIPTOR_TYPE_COMBINED_IMAGE_SAMPLER"}
StageFlags == {"VK_SHADER_STAGE_VERTEX_BIT", "VK_SHADER_STAGE_FRAGMENT_BIT"}
DescriptorCounts == {1, 2}
PoolFlags == {"0", "VK_DESCRIPTOR_POOL_CREATE_FREE_DESCRIPTOR_SET_BIT"}

\* the results of vkAllocateDescriptorSets
VK_ERROR_OUT_OF_POOL_MEMORY == "VK_ERROR_OUT_OF_POOL_MEMORY"
VK_ERROR_FRAGMENTED_POOL == "VK_ERROR_FRAGMENTED_POOL"

\* descriptor sets are named 1, 2, ... in the order of their allocation
VK_NULL_HANDLE == 0

AssertBinding == "Binding already in use"
AssertNoBinding == "Layout does not contain specified binding"
AssertMultiple == "Binding single descriptor info, but binding expects multiple"
ErrCreateLayout == "failed to create descriptor set layout!"
ErrCreatePool == "failed to create descriptor pool!"

\* no layout built yet, no pool built yet
NoLayout == [built |-> FALSE, bindings |-> << >>, pBindings |-> << >>]
NoPool ==
    [built |-> FALSE, maxSets |-> 0, poolFlags |-> "0",
     poolSizes |-> [ty \in DescriptorTypes |-> 0], sets |-> {},
     next |-> 1, fragmented |-> FALSE]

(***************************************************************************)
(* The state.                                                              *)
(***************************************************************************)
VARIABLES
    width,               \* LveWindow::width
    height,              \* LveWindow::height
    framebufferResized,  \* LveWindow::framebufferResized
    lveSwapChain,        \* LveRenderer::lveSwapChain (nullptr or a swapchain)
    isFrameStarted,      \* LveRenderer::isFrameStarted
    currentFrameIndex,   \* LveRenderer::currentFrameIndex
    commandBuffers,      \* LveRenderer::commandBuffers: the state of each buffer
    currentFrame,        \* LveSwapChain::currentFrame: the swapchain's sync slot
    inFlightFences,      \* LveSwapChain::inFlightFences: the fence of each slot
    extent,              \* the local variable extent of recreateSwapChain
    oldSwapChain,        \* the local variable oldSwapChain of recreateSwapChain
    pc,                  \* "start", "idle", "wait" (in glfwWaitEvents), "exit"
    caller,              \* the function that called recreateSwapChain
    fatal,               \* the assertion or exception that ended the process
    exitCode,            \* how the process ended, "none" while it runs
    cerr,                \* what was written to the error stream
    call,                \* the call under way or last made, with the state before it
    lastBegin,           \* what beginFrame returned since the last endFrame
    beginCount,          \* beginFrame calls that returned a command buffer
    endCount             \* endFrame calls that returned

rvars ==
    <<width, height, framebufferResized, lveSwapChain, isFrameStarted,
      currentFrameIndex, commandBuffers, currentFrame, inFlightFences,
      extent, oldSwapChain, pc, caller, fatal, exitCode, cerr, call,
      lastBegin, beginCount, endCount>>

VARIABLES
    bindings,            \* LveDescriptorSetLayout::Builder::bindings
    added,               \* the addBinding calls that were accepted, in order
    layout,              \* the LveDescriptorSetLayout that build() made
    pool,                \* the LveDescriptorPool and its native pool
    descriptor,          \* the caller's VkDescriptorSet given to allocateDescriptor
    dfatal,              \* the assertion or exception that ended the process
    dcall,               \* the last call made to the descriptor classes
    allocCalls,          \* the calls of allocateDescriptor made
    resetN,              \* the sets outstanding at the last resetPool, -1 if none
    sinceReset,          \* the allocations that succeeded since the last resetPool
    writes,              \* LveDescriptorWriter::writes
    bound                \* what is bound in the descriptor sets that were written

dvars ==
    <<bindings, added, layout, pool, descriptor, dfatal, dcall, allocCalls,
      resetN, sinceReset, writes, bound>>

vars == <<rvars, dvars>>

\* the state as one record, the argument and the result of every handler
Cur ==
    [width |-> width, height |-> height,
     framebufferResized |-> framebufferResized,
     lveSwapChain |-> lveSwapChain, isFrameStarted |-> isFrameStarted,
     currentFrameIndex |-> currentFrameIndex,
     commandBuffers |-> commandBuffers, currentFrame |-> currentFrame,
     inFlightFences |-> inFlightFences, extent |-> extent,
     oldSwapChain |-> oldSwapChain, pc |-> pc, caller |-> caller,
     fatal |-> fatal, exitCode |-> exitCode, cerr |-> cerr, call |-> call,
     lastBegin |-> lastBegin, beginCount |-> beginCount,
     endCount |-> endCount]

Apply(s) ==
    /\ width' = s.width
    /\ height' = s.height
    /\ framebufferResized' = s.framebufferResized
    /\ lveSwapChain' = s.lveSwapChain
    /\ isFrameStarted' = s.isFrameStarted
    /\ currentFrameIndex' = s.currentFrameIndex
    /\ commandBuffers' = s.commandBuffers
    /\ currentFrame' = s.currentFrame
    /\ inFlightFences' = s.inFlightFences
    /\ extent' = s.extent
    /\ oldSwapChain' = s.oldSwapChain
    /\ pc' = s.pc
    /\ caller' = s.caller
    /\ fatal' = s.fatal
    /\ exitCode' = s.exitCode
    /\ cerr' = s.cerr
    /\ call' = s.call
    /\ lastBegin' = s.lastBegin
    /\ beginCount' = s.beginCount
    /\ endCount' = s.endCount
    /\ UNCHANGED dvars

\* the record of a call that starts in state s
NewCall(s, op) ==
    [op |-> op, status |-> "none", buffer |-> -1, ret |-> "none",
     retBuffer |-> -1, recreated |-> FALSE, created |-> nullptr,
     pre |-> [isFrameStarted |-> s.isFrameStarted,
              currentFrameIndex |-> s.currentFrameIndex,
              framebufferResized |-> s.framebufferResized,
              commandBuffers |-> s.commandBuffers,
              lveSwapChain |-> s.lveSwapChain,
              currentFrame |-> s.currentFrame,
              inFlightFences |-> s.inFlightFences,
              lastBegin |-> s.lastBegin]]

\* the values of lastBegin: no beginFrame since the last endFrame, a
\* beginFrame that returned null, one that returned command buffer cb
NoBegin == [ret |-> "none", buffer |-> -1]
NullBegin == [ret |-> "nullptr", buffer |-> -1]
BufferBegin(cb) == [ret |-> "buffer", buffer |-> cb]

\* a call is over (it returned, threw or aborted): its locals of plain
\* type are gone (oldSwapChain, which owns an object, is released where
\* its scope ends)
Return(s) ==
    IF s.pc = "wait" THEN s
    ELSE [s EXCEPT !.extent = [width |-> 0, height |-> 0], !.caller = "none"]

\* a failed assert(): abort()
AssertFail(s, msg) == [s EXCEPT !.fatal = msg, !.pc = "exit"]

\* throw std::runtime_error(msg): nothing in the renderer catches it
Throw(s, msg) == [s EXCEPT !.fatal = msg, !.pc = "exit"]


(***************************************************************************)
(* LveWindow.                                                              *)
(***************************************************************************)
\* LveWindow::getExtent(): the window's width and height as a VkExtent2D
getExtent(s) == [width |-> s.width, height |-> s.height]

\* faulty variant: the callback records the size but not the resize
framebufferResizeCallback_NoFlag(s, w, h) ==
    [s EXCEPT !.width = w, !.height = h]

\* LveWindow::framebufferResizeCallback(window, w, h)
framebufferResizeCallback(s, w, h) ==
    [s EXCEPT !.framebufferResized = TRUE, !.width = w, !.height = h]

\* the callbacks one glfwWaitEvents()/glfwPollEvents() delivers: ev is
\* either no resize or the resize to ev.width x ev.height
WindowEvents ==
    {[resize |-> FALSE, width |-> 0, height |-> 0]}
        \cup [resize : {TRUE}, width : Dims, height : Dims]

Deliver(s, ev) ==
    IF ev.resize THEN framebufferResizeCallback(s, ev.width, ev.height) ELSE s

(***************************************************************************)
(* LveSwapChain, as far as the renderer uses it.                           *)
(***************************************************************************)
\* LveSwapChain::LveSwapChain(device, extent [, previous]): the swapchain
\* keeps the window extent it was given; its formats are the surface's
LveSwapChain(e, fmt) ==
    [width |-> e.width, height |-> e.height,
     imageFormat |-> fmt.imageFormat, depthFormat |-> fmt.depthFormat]

\* LveSwapChain::compareSwapFormats(other)
compareSwapFormats(old, new) ==
    /\ new.imageFormat = old.imageFormat
    /\ new.depthFormat = old.depthFormat

\* LveSwapChain::createSyncObjects(): a new swapchain starts at its slot 0
\* with one fence per slot, each created signaled
createSyncObjects(s) ==
    [s EXCEPT !.currentFrame = 0,
              !.inFlightFences = [c \in Slots |-> Signaled]]

\* LveSwapChain::acquireNextImage(&imageIndex) first waits, with no
\* timeout, for the fence of the swapchain's current slot: it goes on only
\* when that fence is signaled.  The renderer passes no slot to it (line
\* 102), the slot is the swapchain's own
acquireNextImageProceeds(s) == s.inFlightFences[s.currentFrame].signaled

\* LveSwapChain::submitCommandBuffers(&buffer, &imageIndex) resets the
\* fence of the current slot, submits the buffer with it, asks for the
\* presentation and moves to the next slot; the renderer passes no slot
\* to it either (line 141)
submitCommandBuffers(s, commandBuffer) ==
    [s EXCEPT !.commandBuffers[commandBuffer] = "pending",
              !.inFlightFences[s.currentFrame] = Guarding(commandBuffer),
              !.currentFrame = (s.currentFrame + 1) % MAX_FRAMES_IN_FLIGHT]

\* the GPU finishes the work submitted with the fence of slot c: the fence
\* is signaled and the command buffer is no longer pending
FenceSignals(s, c) ==
    LET cb == s.inFlightFences[c].buffer
    IN  [s EXCEPT !.inFlightFences[c] = Signaled,
                  !.commandBuffers[cb] =
                      IF @ = "pending" THEN "recorded" ELSE @]

(***************************************************************************)
(* LveRenderer::recreateSwapChain.                                         *)
(***************************************************************************)
\* the assignment that is the condition of the loop,
\*     extent.width = 0 || extent.height == 0
\* stores (0 || extent.height == 0), converted to an integer, in
\* extent.width; the loop goes on while the stored value is not 0
LoopCondition(e) ==
    [e EXCEPT !.width = IF (0 # 0) \/ e.height = 0 THEN 1 ELSE 0]

\* faulty variant: the result of the comparison is dropped
FormatChanged_Ignored(old, new) == FALSE

\* whether the formats are compared and found changed
FormatChanged(old, new) ==
    /\ old # nullptr
    /\ ~compareSwapFormats(old, new)

\* faulty variant: the wait for the device is missing
vkDeviceWaitIdle_Missing(s) == s

\* vkDeviceWaitIdle(device) returns when the GPU has finished all the work
\* submitted to it: every fence is signaled, no command buffer is pending
vkDeviceWaitIdle(s) ==
    [s EXCEPT !.inFlightFences = [c \in Slots |-> Signaled],
              !.commandBuffers =
                  [i \in Slots |-> IF @[i] = "pending" THEN "recorded" ELSE @[i]]]

\* faulty variant: the previous swapchain is never let go
ReleaseOld_Kept(s) == s

\* the scope of oldSwapChain ends, at the closing brace of the else branch
\* or when an exception unwinds it: the previous swapchain is destroyed
ReleaseOld(s) == [s EXCEPT !.oldSwapChain = nullptr]

\* from vkDeviceWaitIdle to the end.  The renderer's pointer is empty
\* while the new swapchain is constructed (it was empty, or it was moved
\* to oldSwapChain) and stays so when the construction throws; the new
\* swapchain replaces the renderer's before the formats are compared
RecreateTail(s, in) ==
    LET s0 == vkDeviceWaitIdle(s)
        old == s0.lveSwapChain
        new == LveSwapChain(s0.extent, in.fmt)
        s1 == [s0 EXCEPT !.oldSwapChain = old, !.lveSwapChain = nullptr]
        s2 == createSyncObjects([s1 EXCEPT !.lveSwapChain = new,
                                           !.call.created = new])
    IN  IF ~in.createOk THEN Throw(ReleaseOld(s1), ErrCreateSwapChain)
        ELSE IF FormatChanged(old, new)
             THEN Throw(ReleaseOld(s2), ErrFormatChanged)
        ELSE ReleaseOld(s2)

\* one evaluation of the loop condition, and what follows it up to the
\* next glfwWaitEvents() or to the end of the function
RecreateLoop(s, in) ==
    LET s1 == [s EXCEPT !.extent = LoopCondition(s.extent)]
    IN  IF s1.extent.width # 0
        THEN [s1 EXCEPT !.extent = getExtent(s1), !.pc = "wait"]
        ELSE RecreateTail([s1 EXCEPT !.pc = "run"], in)

recreateSwapChain(s, in) ==
    RecreateLoop([s EXCEPT !.extent = getExtent(s), !.call.recreated = TRUE], in)

(***************************************************************************)
(* LveRenderer: the constructor and the frame protocol.                    *)
(***************************************************************************)
\* LveRenderer::getCurrentCommandBuffer(): commandBuffers[currentFrameIndex];
\* a command buffer is named by its slot
getCurrentCommandBuffer(s) == s.currentFrameIndex

\* createCommandBuffers(), the second statement of the constructor
createCommandBuffers(s, allocOk) ==
    IF ~allocOk
    THEN Throw(s, ErrAllocate)
    ELSE [s EXCEPT !.commandBuffers = [i \in Slots |-> "initial"],
                   !.call.ret = "void", !.pc = "idle"]

\* faulty variant: the return is missing, beginFrame goes on to start the frame
BeginFrameSkip_FallsThrough(s) ==
    [s EXCEPT !.isFrameStarted = TRUE,
              !.commandBuffers[s.currentFrameIndex] = "recording",
              !.call.ret = "buffer", !.call.retBuffer = s.currentFrameIndex,
              !.lastBegin = BufferBegin(s.currentFrameIndex),
              !.beginCount = @ + 1, !.pc = "idle"]

\* beginFrame after recreateSwapChain(): return nullptr
BeginFrameSkip(s) ==
    [s EXCEPT !.call.ret = "nullptr", !.lastBegin = NullBegin, !.pc = "idle"]

\* faulty variant: the modulo is missing
NextFrameIndex_NoModulo(i) == i + 1

\* the index of the frame in flight after the current one
NextFrameIndex(i) == (i + 1) % MAX_FRAMES_IN_FLIGHT

\* endFrame's last two statements
EndFrameFinish(s) ==
    [s EXCEPT !.isFrameStarted = FALSE,
              !.currentFrameIndex = NextFrameIndex(s.currentFrameIndex),
              !.call.ret = "void", !.endCount = @ + 1, !.pc = "idle"]

\* what the caller of recreateSwapChain does when it returns; nothing
\* when it blocks or throws.  in.allocOk is vkAllocateCommandBuffers' result
Resume(s, in) ==
    IF s.pc # "run" THEN s
    ELSE CASE s.caller = "LveRenderer" -> createCommandBuffers(s, in.allocOk)
           [] s.caller = "beginFrame" -> BeginFrameSkip(s)
           [] s.caller = "endFrame" -> EndFrameFinish(s)

\* LveRenderer::LveRenderer(window, device)
LveRenderer(s, in) ==
    LET s0 == [s EXCEPT !.call = NewCall(s, "LveRenderer"),
                        !.caller = "LveRenderer", !.pc = "run"]
    IN  Resume(recreateSwapChain(s0, in), in)

\* faulty variant: the assertion is missing
BeginFrameAccepts_Missing(s) == TRUE

\* faulty variant: the assertion looks at the frame index instead of the flag
BeginFrameAccepts_WrongField(s) == s.currentFrameIndex = 0

\* the assertion that opens beginFrame
BeginFrameAccepts(s) == ~s.isFrameStarted

\* faulty variant: a suboptimal acquire is taken as an outdated one
AcquireOutdated_OrSuboptimal(result) ==
    result = VK_ERROR_OUT_OF_DATE_KHR \/ result = VK_SUBOPTIMAL_KHR

\* the acquire result for which beginFrame recreates the swapchain
AcquireOutdated(result) == result = VK_ERROR_OUT_OF_DATE_KHR

\* faulty variant: the acquire result is not checked
AcquireFailed_Unchecked(result) == FALSE

\* faulty variant: the test is inverted
AcquireFailed_Inverted(result) ==
    ~(result # VK_SUCCESS /\ result # VK_SUBOPTIMAL_KHR)

\* the acquire results for which beginFrame throws
AcquireFailed(result) == result # VK_SUCCESS /\ result # VK_SUBOPTIMAL_KHR

\* LveRenderer::beginFrame(); in.result is what acquireNextImage returns,
\* in.recordOk whether vkBeginCommandBuffer succeeds
beginFrame(s, in) ==
    LET s0 == [s EXCEPT !.call = NewCall(s, "beginFrame"),
                        !.caller = "beginFrame", !.pc = "run"]
        s1 == [s0 EXCEPT !.call.status = in.result]
        s2 == [s1 EXCEPT !.isFrameStarted = TRUE]
        cb == getCurrentCommandBuffer(s2)
    IN  IF ~BeginFrameAccepts(s0) THEN AssertFail(s0, AssertBeginFrame)
        ELSE IF AcquireOutdated(in.result)
             THEN Resume(recreateSwapChain(s1, in), in)
        ELSE IF AcquireFailed(in.result) THEN Throw(s1, ErrAcquire)
        ELSE IF ~in.recordOk THEN Throw(s2, ErrBeginRecording)
        ELSE [s2 EXCEPT !.commandBuffers[cb] = "recording",
                        !.call.ret = "buffer", !.call.retBuffer = cb,
                        !.lastBegin = BufferBegin(cb), !.beginCount = @ + 1,
                        !.pc = "idle"]

\* the assertion that opens endFrame
EndFrameAccepts(s) == s.isFrameStarted

\* faulty variant: the window's resize flag is not looked at
NeedsRecreate_IgnoresResize(result, resized) ==
    result = VK_ERROR_OUT_OF_DATE_KHR \/ result = VK_SUBOPTIMAL_KHR

\* faulty variant: a suboptimal present is not taken as a reason to recreate
NeedsRecreate_OnlyOutdated(result, resized) ==
    result = VK_ERROR_OUT_OF_DATE_KHR \/ resized

\* the condition under which endFrame recreates the swapchain
NeedsRecreate(result, resized) ==
    result = VK_ERROR_OUT_OF_DATE_KHR \/ result = VK_SUBOPTIMAL_KHR \/ resized

\* LveWindow::wasWindowResized() and resetWindowResizedFlag()
wasWindowResized(s) == s.framebufferResized
resetWindowResizedFlag(s) == [s EXCEPT !.framebufferResized = FALSE]

\* LveRenderer::endFrame(); in.recordOk is whether vkEndCommandBuffer
\* succeeds, in.result what submitCommandBuffers returns
endFrame(s, in) ==
    LET s0 == [s EXCEPT !.call = NewCall(s, "endFrame"),
                        !.caller = "endFrame", !.lastBegin = NoBegin,
                        !.pc = "run"]
        cb == getCurrentCommandBuffer(s0)
        s1 == [submitCommandBuffers(s0, cb) EXCEPT !.call.status = in.result]
    IN  IF ~EndFrameAccepts(s0) THEN AssertFail(s0, AssertEndFrame)
        ELSE IF ~in.recordOk
             THEN Throw([s0 EXCEPT !.commandBuffers[cb] = "invalid"],
                        ErrEndRecording)
        ELSE IF NeedsRecreate(in.result, wasWindowResized(s1))
             THEN Resume(recreateSwapChain(resetWindowResizedFlag(s1), in), in)
        ELSE IF in.result # VK_SUCCESS THEN Throw(s1, ErrPresent)
        ELSE EndFrameFinish(s1)

\* faulty variant: the command buffer is not compared with the current one
RenderPassRejects_AnyBuffer(s, commandBuffer, frameMsg, bufferMsg) ==
    IF ~s.isFrameStarted THEN frameMsg ELSE ""

\* the two assertions that open begin/endSwapChainRenderPass: "" when
\* both hold, else the message of the first that fails
RenderPassRejects(s, commandBuffer, frameMsg, bufferMsg) ==
    IF ~s.isFrameStarted THEN frameMsg
    ELSE IF commandBuffer # getCurrentCommandBuffer(s) THEN bufferMsg
    ELSE ""

\* LveRenderer::beginSwapChainRenderPass(commandBuffer)
beginSwapChainRenderPass(s, commandBuffer) ==
    LET s0 == [s EXCEPT !.call = NewCall(s, "beginSwapChainRenderPass"),
                        !.call.buffer = commandBuffer]
        msg == RenderPassRejects(s0, commandBuffer, AssertBeginPassFrame,
                                 AssertBeginPassBuffer)
    IN  IF msg # "" THEN AssertFail(s0, msg)
        ELSE [s0 EXCEPT !.commandBuffers[commandBuffer] = "render_pass",
                        !.call.ret = "void"]

\* LveRenderer::endSwapChainRenderPass(commandBuffer)
endSwapChainRenderPass(s, commandBuffer) ==
    LET s0 == [s EXCEPT !.call = NewCall(s, "endSwapChainRenderPass"),
                        !.call.buffer = commandBuffer]
        msg == RenderPassRejects(s0, commandBuffer, AssertEndPassFrame,
                                 AssertEndPassBuffer)
    IN  IF msg # "" THEN AssertFail(s0, msg)
        ELSE [s0 EXCEPT !.commandBuffers[commandBuffer] = "recorded",
                        !.call.ret = "void"]

\* glfwWaitEvents() returns inside recreateSwapChain: the callbacks of
\* the events run, then the loop condition is evaluated again
glfwWaitEvents(s, ev, in) ==
    Resume(RecreateLoop(Deliver(s, ev), in), in)

(***************************************************************************)
(* main(): how the process ends.                                           *)
(***************************************************************************)
\* abort(), after assert() has written the failed assertion
Abort(s) == [s EXCEPT !.cerr = s.fatal, !.exitCode = SIGABRT]

\* std::terminate() for an exception nothing catches: abort(); whether
\* the exception's message is written first is the implementation's choice
Terminate(s, verbose) ==
    [s EXCEPT !.cerr = IF verbose THEN s.fatal ELSE "", !.exitCode = SIGABRT]

\* the handler of main's try block
Catch(s) == [s EXCEPT !.cerr = s.fatal, !.exitCode = EXIT_FAILURE]

\* main() around a call that is over.  The application object, and with it
\* the renderer, is constructed before the try block; run(), which makes
\* every other call, is inside it
main(s, verbose) ==
    IF s.pc # "exit" THEN s
    ELSE IF s.fatal = NoError THEN [s EXCEPT !.exitCode = EXIT_SUCCESS]
    ELSE IF s.fatal \in Assertions THEN Abort(s)
    ELSE IF s.call.op = "LveRenderer" THEN Terminate(s, verbose)
    ELSE Catch(s)

(***************************************************************************)
(* The environment's answers to one call, and the actions.                 *)
(***************************************************************************)
Inputs ==
    [result : VkResults, recordOk : BOOLEAN, allocOk : BOOLEAN,
     createOk : BOOLEAN, fmt : Formats, verbose : BOOLEAN]

\* the answer that stands for one the call does not read
Unread(in, field) ==
    CASE field = "result" -> in.result = VK_SUCCESS
      [] field = "recordOk" -> in.recordOk
      [] field = "allocOk" -> in.allocOk
      [] field = "createOk" -> in.createOk
      [] field = "fmt" -> in.fmt = [imageFormat |-> "F1", depthFormat |-> "D1"]
      [] field = "verbose" -> in.verbose

\* the answers of a call that reads none
NoInputs == {in \in Inputs : \A f \in DOMAIN in : Unread(in, f)}

\* recreateSwapChain constructs a swapchain, without waiting first, when
\* the loop condition is false of the extent e
Constructs(e) == LoopCondition(e).width = 0

\* recreateSwapChain reads whether the swapchain could be constructed and,
\* if so, its formats
RecreateInputs == {in \in Inputs : ~in.createOk => Unread(in, "fmt")}

\* the constructor reads what recreateSwapChain does and, when that
\* returns, the allocation's result; when either fails, std::terminate
\* makes its choice
CtorInputs ==
    {in \in RecreateInputs :
        /\ in.fmt \in FirstFormats
        /\ Unread(in, "result") /\ Unread(in, "recordOk")
        /\ ~in.createOk => Unread(in, "allocOk")
        /\ in.createOk /\ in.allocOk => Unread(in, "verbose")}

\* the rest of recreateSwapChain, when the wait is over; its caller, when
\* it is the constructor, then reads the allocation's result
WaitInputs(s) ==
    IF ~Constructs(s.extent) THEN NoInputs
    ELSE IF s.caller = "LveRenderer" THEN CtorInputs
    ELSE {in \in RecreateInputs :
            /\ Unread(in, "result") /\ Unread(in, "recordOk")
            /\ Unread(in, "allocOk") /\ Unread(in, "verbose")}

\* beginFrame reads the acquire result, then either what recreateSwapChain
\* reads (outdated) or vkBeginCommandBuffer's result (success, suboptimal)
BeginInputs(s) ==
    IF ~BeginFrameAccepts(s) THEN NoInputs
    ELSE {in \in RecreateInputs :
            /\ Unread(in, "allocOk") /\ Unread(in, "verbose")
            /\ in.result # VK_ERROR_OUT_OF_DATE_KHR \/ ~Constructs(getExtent(s))
                 => Unread(in, "fmt") /\ Unread(in, "createOk")
            /\ in.result \notin {VK_SUCCESS, VK_SUBOPTIMAL_KHR}
                 => Unread(in, "recordOk")}

\* endFrame reads vkEndCommandBuffer's result and, when that succeeded,
\* the submit result and what recreateSwapChain reads
EndInputs(s) ==
    IF ~EndFrameAccepts(s) THEN NoInputs
    ELSE {in \in RecreateInputs :
            /\ Unread(in, "allocOk") /\ Unread(in, "verbose")
            /\ ~in.recordOk => Unread(in, "result")
            /\ ~in.recordOk \/ ~Constructs(getExtent(s))
                 => Unread(in, "fmt") /\ Unread(in, "createOk")}

InitRenderer ==
    /\ width \in Dims
    /\ height \in Dims
    /\ framebufferResized = FALSE
    /\ lveSwapChain = nullptr
    /\ isFrameStarted = FALSE
    /\ currentFrameIndex = 0
    /\ commandBuffers = [i \in Slots |-> "unallocated"]
    /\ currentFrame = 0
    /\ inFlightFences = [i \in Slots |-> Signaled]
    /\ extent = [width |-> 0, height |-> 0]
    /\ oldSwapChain = nullptr
    /\ pc = "start"
    /\ caller = "none"
    /\ fatal = NoError
    /\ exitCode = "none"
    /\ cerr = ""
    /\ call = [NewCall([isFrameStarted |-> FALSE, currentFrameIndex |-> 0,
                        framebufferResized |-> FALSE,
                        commandBuffers |-> [i \in Slots |-> "unallocated"],
                        lveSwapChain |-> nullptr, currentFrame |-> 0,
                        inFlightFences |-> [i \in Slots |-> Signaled],
                        lastBegin |-> NoBegin],
                       "none") EXCEPT !.ret = "void"]
    /\ lastBegin = NoBegin
    /\ beginCount = 0
    /\ endCount = 0

\* the state of the descriptor classes as one record
DCur ==
    [bindings |-> bindings, added |-> added, layout |-> layout,
     pool |-> pool, descriptor |-> descriptor, dfatal |-> dfatal,
     dcall |-> dcall, allocCalls |-> allocCalls, resetN |-> resetN,
     sinceReset |-> sinceReset, writes |-> writes, bound |-> bound]

\* the record of a call to the descriptor classes that starts in state d
DNewCall(d, op) ==
    [op |-> op, binding |-> -1, set |-> VK_NULL_HANDLE, ret |-> "none",
     result |-> "none",
     pre |-> [op |-> d.dcall.op, set |-> d.dcall.set, ret |-> d.dcall.ret,
              bindings |-> d.bindings, layout |-> d.layout, pool |-> d.pool,
              descriptor |-> d.descriptor, writes |-> d.writes,
              bound |-> d.bound]]

\* a new Builder: no binding registered, nothing built
DInit ==
    LET d == [bindings |-> << >>, added |-> << >>, layout |-> NoLayout,
              pool |-> NoPool, descriptor |-> VK_NULL_HANDLE,
              dfatal |-> NoError, allocCalls |-> 0, resetN |-> -1,
              sinceReset |-> 0, writes |-> << >>, bound |-> << >>,
              dcall |-> [op |-> "none", set |-> VK_NULL_HANDLE,
                         ret |-> "none"]]
    IN  [bindings |-> d.bindings, added |-> d.added, layout |-> d.layout,
         pool |-> d.pool, descriptor |-> d.descriptor, dfatal |-> d.dfatal,
         dcall |-> [DNewCall(d, "Builder") EXCEPT !.ret = "void"],
         allocCalls |-> d.allocCalls, resetN |-> d.resetN,
         sinceReset |-> d.sinceReset, writes |-> d.writes, bound |-> d.bound]

\* the variables of the descriptor classes have the values of the record d
DState(d) ==
    /\ bindings = d.bindings
    /\ added = d.added
    /\ layout = d.layout
    /\ pool = d.pool
    /\ descriptor = d.descriptor
    /\ dfatal = d.dfatal
    /\ dcall = d.dcall
    /\ allocCalls = d.allocCalls
    /\ resetN = d.resetN
    /\ sinceReset = d.sinceReset
    /\ writes = d.writes
    /\ bound = d.bound

Init == InitRenderer /\ DState(DInit)

Construct ==
    /\ pc = "start"
    /\ \E in \in CtorInputs : Apply(main(Return(LveRenderer(Cur, in)), in.verbose))

WaitEvents ==
    /\ pc = "wait"
    /\ \E ev \in WindowEvents, in \in WaitInputs(Cur) :
            Apply(main(Return(glfwWaitEvents(Cur, ev, in)), in.verbose))

\* the driver's glfwPollEvents() between two calls delivers a resize
PollEvents ==
    /\ pc = "idle"
    /\ \E ev \in WindowEvents : ev.resize /\ Apply(Deliver(Cur, ev))

\* a beginFrame that passes its assertion is over only when the wait in
\* acquireNextImage is
BeginFrame ==
    /\ pc = "idle"
    /\ beginCount < MaxFrames
    /\ BeginFrameAccepts(Cur) => acquireNextImageProceeds(Cur)
    /\ \E in \in BeginInputs(Cur) :
            Apply(main(Return(beginFrame(Cur, in)), in.verbose))

EndFrame ==
    /\ pc = "idle"
    /\ \E in \in EndInputs(Cur) :
            Apply(main(Return(endFrame(Cur, in)), in.verbose))

BeginSwapChainRenderPass ==
    /\ pc = "idle"
    /\ \E cb \in Slots :
            Apply(main(Return(beginSwapChainRenderPass(Cur, cb)), TRUE))

EndSwapChainRenderPass ==
    /\ pc = "idle"
    /\ \E cb \in Slots :
            Apply(main(Return(endSwapChainRenderPass(Cur, cb)), TRUE))

\* the window is closed: the driver's loop ends and main returns
Close ==
    /\ pc = "idle"
    /\ Apply(main([Cur EXCEPT !.pc = "exit"], TRUE))

\* the GPU, which runs beside the program, finishes a submission
GpuCompletes ==
    /\ pc \in {"idle", "wait"}
    /\ \E c \in Slots :
            /\ ~inFlightFences[c].signaled
            /\ Apply(FenceSignals(Cur, c))

Next ==
    \/ Construct
    \/ WaitEvents
    \/ PollEvents
    \/ BeginFrame
    \/ EndFrame
    \/ BeginSwapChainRenderPass
    \/ EndSwapChainRenderPass
    \/ GpuCompletes
    \/ Close

Spec == Init /\ [][Next]_vars

TypeOK ==
    /\ width \in Dims /\ height \in Dims
    /\ framebufferResized \in BOOLEAN
    /\ isFrameStarted \in BOOLEAN
    /\ currentFrameIndex \in Nat
    /\ pc \in {"start", "idle", "wait", "exit"}
    /\ fatal \in {NoError} \cup Assertions \cup Exceptions
    /\ currentFrame \in Slots
    /\ exitCode \in {"none", EXIT_SUCCESS, EXIT_FAILURE, SIGABRT}


(***************************************************************************)
(* The end-to-end run: the driver's loop                                   *)
(*     if (auto commandBuffer = beginFrame()) {                            *)
(*         beginSwapChainRenderPass(commandBuffer); ... draw ...           *)
(*         endSwapChainRenderPass(commandBuffer); endFrame(); }            *)
(* on a window with a non-zero extent, with no resize event and with       *)
(* acquire and present answering VK_SUCCESS, for RunIterations frames.     *)
(***************************************************************************)
RunInputs ==
    {in \in Inputs :
        /\ Unread(in, "result") /\ Unread(in, "fmt") /\ Unread(in, "createOk")
        /\ Unread(in, "verbose")}

InitRun == Init /\ width # 0 /\ height # 0

RunConstruct ==
    /\ pc = "start"
    /\ \E in \in CtorInputs : Apply(main(Return(LveRenderer(Cur, in)), in.verbose))

RunBeginFrame ==
    /\ pc = "idle"
    /\ call.op \in {"LveRenderer", "endFrame"} \/ call.ret = "nullptr"
    /\ endCount < RunIterations
    /\ acquireNextImageProceeds(Cur)
    /\ \E in \in RunInputs :
            Unread(in, "allocOk") /\ Apply(main(Return(beginFrame(Cur, in)), TRUE))

RunBeginRenderPass ==
    /\ pc = "idle"
    /\ call.op = "beginFrame" /\ call.ret = "buffer"
    /\ Apply(main(Return(beginSwapChainRenderPass(Cur, call.retBuffer)), TRUE))

RunEndRenderPass ==
    /\ pc = "idle"
    /\ call.op = "beginSwapChainRenderPass"
    /\ Apply(main(Return(endSwapChainRenderPass(Cur, call.buffer)), TRUE))

RunEndFrame ==
    /\ pc = "idle"
    /\ call.op = "endSwapChainRenderPass"
    /\ \E in \in RunInputs :
            Unread(in, "allocOk") /\ Apply(main(Return(endFrame(Cur, in)), TRUE))

NextRun ==
    \/ RunConstruct
    \/ RunBeginFrame
    \/ RunBeginRenderPass
    \/ RunEndRenderPass
    \/ RunEndFrame
    \/ GpuCompletes

SpecRun == InitRun /\ [][NextRun]_vars

(***************************************************************************)
(* The driver's loop with the GPU beside it: the loop of SpecRun on a      *)
(* window that is never minimized, where acquire and present answer        *)
(* anything, recording can fail and the window can be resized between two  *)
(* iterations, for MaxFlightFrames frames.                                 *)
(***************************************************************************)
FlightSizes == {1, MaxDim}

InitFlight == Init /\ width = MaxDim /\ height = MaxDim

\* the driver is at the top of its loop
FlightLoopTop ==
    /\ pc = "idle"
    /\ call.op \in {"LveRenderer", "endFrame"} \/ call.ret = "nullptr"

\* glfwPollEvents() at the top of the loop delivers a resize
FlightPollEvents ==
    /\ FlightLoopTop
    /\ \E w \in FlightSizes, h \in FlightSizes :
            Apply(Deliver(Cur, [resize |-> TRUE, width |-> w, height |-> h]))

FlightBeginFrame ==
    /\ FlightLoopTop
    /\ beginCount < MaxFlightFrames
    /\ acquireNextImageProceeds(Cur)
    /\ \E in \in BeginInputs(Cur) :
            Apply(main(Return(beginFrame(Cur, in)), in.verbose))

FlightEndFrame ==
    /\ pc = "idle"
    /\ call.op = "endSwapChainRenderPass"
    /\ \E in \in EndInputs(Cur) :
            Apply(main(Return(endFrame(Cur, in)), in.verbose))

NextFlight ==
    \/ RunConstruct
    \/ FlightPollEvents
    \/ FlightBeginFrame
    \/ RunBeginRenderPass
    \/ RunEndRenderPass
    \/ FlightEndFrame
    \/ GpuCompletes

SpecFlight == InitFlight /\ [][NextFlight]_vars

(***************************************************************************)
(* LveDescriptorSetLayout::Builder and LveDescriptorSetLayout.             *)
(***************************************************************************)
\* the values of the variables after a step are those of the record d
DApply(d) ==
    /\ bindings' = d.bindings
    /\ added' = d.added
    /\ layout' = d.layout
    /\ pool' = d.pool
    /\ descriptor' = d.descriptor
    /\ dfatal' = d.dfatal
    /\ dcall' = d.dcall
    /\ allocCalls' = d.allocCalls
    /\ resetN' = d.resetN
    /\ sinceReset' = d.sinceReset
    /\ writes' = d.writes
    /\ bound' = d.bound
    /\ UNCHANGED rvars

\* assert(cond && msg) with cond false
DAssertFail(d, msg) == [d EXCEPT !.dfatal = msg]

\* throw std::runtime_error(msg)
DThrow(d, msg) == [d EXCEPT !.dfatal = msg]

\* the arguments of one addBinding call
BindingArgs ==
    [binding : BindingIndices, descriptorType : DescriptorTypes,
     stageFlags : StageFlags, count : DescriptorCounts]

\* the VkDescriptorSetLayoutBinding that addBinding fills in
LayoutBinding_CountDropped(binding, descriptorType, stageFlags, count) ==
    [binding |-> binding, descriptorType |-> descriptorType,
     descriptorCount |-> 1, stageFlags |-> stageFlags]

LayoutBinding(binding, descriptorType, stageFlags, count) ==
    [binding |-> binding, descriptorType |-> descriptorType,
     descriptorCount |-> count, stageFlags |-> stageFlags]

\* the condition asserted by addBinding: bindings.count(binding) == 0
AddBindingAccepts_Missing(d, binding) == TRUE

AddBindingAccepts(d, binding) == binding \notin DOMAIN d.bindings

\* map[key] = value of std::unordered_map: inserts the key or overwrites it
MapStore(map, key, value) ==
    [k \in DOMAIN map \cup {key} |-> IF k = key THEN value ELSE map[k]]

addBinding(d, a) ==
    LET d0 == [d EXCEPT !.dcall =
                   [DNewCall(d, "addBinding") EXCEPT !.binding = a.binding]]
        layoutBinding ==
            LayoutBinding(a.binding, a.descriptorType, a.stageFlags, a.count)
    IN  IF ~AddBindingAccepts(d0, a.binding)
        THEN DAssertFail(d0, AssertBinding)
        ELSE [d0 EXCEPT !.bindings = MapStore(@, a.binding, layoutBinding),
                        !.added = Append(@, a),
                        !.dcall.ret = "*this"]

\* the orders in which a range-for can visit the keys of an unordered_map
IterationOrders(map) ==
    {order \in [1 .. Cardinality(DOMAIN map) -> DOMAIN map] :
        \A i, j \in DOMAIN order : i # j => order[i] # order[j]}

\* the constructor: it copies the map, pushes every value into the vector
\* handed to vkCreateDescriptorSetLayout, and throws when that call fails
LveDescriptorSetLayout(d, map, order, createOk) ==
    LET setLayoutBindings == [i \in DOMAIN order |-> map[order[i]]]
    IN  IF ~createOk THEN DThrow(d, ErrCreateLayout)
        ELSE [d EXCEPT !.layout = [built |-> TRUE, bindings |-> map,
                                   pBindings |-> setLayoutBindings],
                       !.dcall.ret = "layout"]

build(d, order, createOk) ==
    LveDescriptorSetLayout([d EXCEPT !.dcall = DNewCall(d, "build")],
                           d.bindings, order, createOk)

\* the builder is alive: nothing failed and no layout was taken from it yet
Building == dfatal = NoError /\ ~layout.built /\ ~pool.built

AddBinding ==
    /\ Building
    /\ \E a \in BindingArgs : DApply(addBinding(DCur, a))

Build ==
    /\ Building
    /\ \E order \in IterationOrders(bindings), createOk \in BOOLEAN :
           DApply(build(DCur, order, createOk))

InitLayout == Init /\ width = MaxDim /\ height = MaxDim

NextLayout ==
    \/ AddBinding
    \/ Build

SpecLayout == InitLayout /\ [][NextLayout]_vars

(***************************************************************************)
(* LveDescriptorPool.                                                      *)
(*                                                                         *)
(* The native pool is a fixed-capacity allocator: it holds at most maxSets *)
(* sets and, of each descriptor type, at most the sum of the pool sizes    *)
(* given for that type.  All sets of one behaviour are allocated with the  *)
(* one layout of that behaviour.                                           *)
(***************************************************************************)
\* the (descriptorType, count) pairs given to addPoolSize
PoolSizes ==
    [type : DescriptorTypes, descriptorCount : 1 .. MaxPoolSize]

PoolSizeLists ==
    {<<ps>> : ps \in PoolSizes} \cup {<<ps, qs>> : ps \in PoolSizes, qs \in PoolSizes}

\* the descriptors of type ty in a list of pool sizes
RECURSIVE PoolCapacity(_, _)
PoolCapacity(poolSizes, ty) ==
    IF poolSizes = << >> THEN 0
    ELSE (IF Head(poolSizes).type = ty
          THEN Head(poolSizes).descriptorCount ELSE 0)
         + PoolCapacity(Tail(poolSizes), ty)

\* the descriptors of type ty that one set of a layout takes
RECURSIVE LayoutNeeds(_, _)
LayoutNeeds(pBindings, ty) ==
    IF pBindings = << >> THEN 0
    ELSE (IF Head(pBindings).descriptorType = ty
          THEN Head(pBindings).descriptorCount ELSE 0)
         + LayoutNeeds(Tail(pBindings), ty)

\* the constructor: vkCreateDescriptorPool with the sizes, maxSets and flags
LveDescriptorPool(d, maxSets, poolFlags, poolSizes, createOk) ==
    LET d0 == [d EXCEPT !.dcall = DNewCall(d, "LveDescriptorPool")]
    IN  IF ~createOk THEN DThrow(d0, ErrCreatePool)
        ELSE [d0 EXCEPT
                 !.pool = [built |-> TRUE, maxSets |-> maxSets,
                           poolFlags |-> poolFlags,
                           poolSizes |-> [ty \in DescriptorTypes |->
                                             PoolCapacity(poolSizes, ty)],
                           sets |-> {}, next |-> 1, fragmented |-> FALSE],
                 !.dcall.ret = "pool"]

\* one more set of layout l fits into pool p
PoolHasRoom(p, l) ==
    /\ Cardinality(p.sets) < p.maxSets
    /\ \A ty \in DescriptorTypes :
           (Cardinality(p.sets) + 1) * LayoutNeeds(l.pBindings, ty)
               <= p.poolSizes[ty]

\* vkAllocateDescriptorSets for one set: a failure leaves the pool as it is
\* and writes VK_NULL_HANDLE into the caller's handle
vkAllocateDescriptorSets(d, l, fragments) ==
    IF ~PoolHasRoom(d.pool, l)
    THEN [d EXCEPT !.descriptor = VK_NULL_HANDLE,
                   !.dcall.result = VK_ERROR_OUT_OF_POOL_MEMORY]
    ELSE IF d.pool.fragmented /\ fragments
    THEN [d EXCEPT !.descriptor = VK_NULL_HANDLE,
                   !.dcall.result = VK_ERROR_FRAGMENTED_POOL]
    ELSE [d EXCEPT !.pool.sets = @ \cup {d.pool.next},
                   !.pool.next = @ + 1,
                   !.descriptor = d.pool.next,
                   !.dcall.result = VK_SUCCESS]

\* vkFreeDescriptorSets: the freed sets leave holes in the pool
vkFreeDescriptorSets(d, descriptors) ==
    [d EXCEPT !.pool.sets = @ \ descriptors, !.pool.fragmented = TRUE,
              !.bound = [h \in DOMAIN @ \ descriptors |-> @[h]]]

\* vkResetDescriptorPool: every set returns to the pool
vkResetDescriptorPool(d) ==
    [d EXCEPT !.pool.sets = {}, !.pool.fragmented = FALSE, !.bound = << >>]

\* what allocateDescriptor does when vkAllocateDescriptorSets fails
AllocateFailure_Throws(d) == DThrow(d, ErrCreatePool)

AllocateFailure(d) == [d EXCEPT !.dcall.ret = "false"]

allocateDescriptor(d, l, fragments) ==
    LET d0 == [d EXCEPT !.dcall = DNewCall(d, "allocateDescriptor")]
        d1 == vkAllocateDescriptorSets(d0, l, fragments)
    IN  IF d1.dcall.result # VK_SUCCESS THEN AllocateFailure(d1)
        ELSE [d1 EXCEPT !.dcall.ret = "true"]

freeDescriptors(d, descriptors) ==
    [vkFreeDescriptorSets([d EXCEPT !.dcall = DNewCall(d, "freeDescriptors")],
                          descriptors)
        EXCEPT !.dcall.ret = "void"]

resetPool_Noop(d) == d

resetPool(d) == vkResetDescriptorPool(d)

\* bookkeeping for the properties: the calls made, the sets outstanding at
\* the last resetPool, and the sets allocated since then
AfterAllocate(d) ==
    [d EXCEPT !.allocCalls = @ + 1,
              !.sinceReset = IF d.dcall.ret = "true" THEN @ + 1 ELSE @]

AfterFree(d) == [d EXCEPT !.resetN = -1]

AfterReset(pre, d) ==
    [d EXCEPT !.resetN = Cardinality(pre.pool.sets), !.sinceReset = 0,
              !.dcall.ret = "void"]

\* the pool is alive
Pooling == dfatal = NoError /\ layout.built /\ pool.built

BuildPool ==
    /\ dfatal = NoError
    /\ layout.built
    /\ ~pool.built
    /\ \E maxSets \in 1 .. MaxSets, poolFlags \in PoolFlags,
          poolSizes \in PoolSizeLists, createOk \in BOOLEAN :
           DApply(LveDescriptorPool(DCur, maxSets, poolFlags, poolSizes,
                                    createOk))

AllocateDescriptor ==
    /\ Pooling
    /\ allocCalls < MaxAllocs
    /\ \E fragments \in {f \in BOOLEAN : pool.fragmented \/ ~f} :
           DApply(AfterAllocate(allocateDescriptor(DCur, layout, fragments)))

\* freeing is valid only for a pool created with the free flag, and only
\* for sets that are allocated from it
FreeDescriptors ==
    /\ Pooling
    /\ pool.poolFlags = "VK_DESCRIPTOR_POOL_CREATE_FREE_DESCRIPTOR_SET_BIT"
    /\ \E descriptors \in SUBSET pool.sets \ {{}} :
           DApply(AfterFree(freeDescriptors(DCur, descriptors)))

ResetPool ==
    /\ Pooling
    /\ DApply(AfterReset(DCur,
                  resetPool([DCur EXCEPT !.dcall = DNewCall(DCur, "resetPool")])))

\* the layouts that the pool's clients allocate with
SampleBindings ==
    {<<[binding |-> 0, descriptorType |-> "VK_DESCRIPTOR_TYPE_UNIFORM_BUFFER",
        stageFlags |-> "VK_SHADER_STAGE_VERTEX_BIT", count |-> 1]>>,
     <<[binding |-> 0, descriptorType |-> "VK_DESCRIPTOR_TYPE_UNIFORM_BUFFER",
        stageFlags |-> "VK_SHADER_STAGE_VERTEX_BIT", count |-> 1],
       [binding |-> 1,
        descriptorType |-> "VK_DESCRIPTOR_TYPE_COMBINED_IMAGE_SAMPLER",
        stageFlags |-> "VK_SHADER_STAGE_FRAGMENT_BIT", count |-> 1]>>,
     <<[binding |-> 0, descriptorType |-> "VK_DESCRIPTOR_TYPE_UNIFORM_BUFFER",
        stageFlags |-> "VK_SHADER_STAGE_FRAGMENT_BIT", count |-> 2]>>}

RECURSIVE AddAll(_, _)
AddAll(d, seq) ==
    IF seq = << >> THEN d ELSE AddAll(addBinding(d, Head(seq)), Tail(seq))

\* a layout was built from one of the samples
InitPool ==
    /\ InitRenderer
    /\ width = MaxDim
    /\ height = MaxDim
    /\ \E seq \in SampleBindings :
           LET d == AddAll(DInit, seq)
           IN  \E order \in IterationOrders(d.bindings) :
                   DState(build(d, order, TRUE))

NextPool ==
    \/ BuildPool
    \/ AllocateDescriptor
    \/ FreeDescriptors
    \/ ResetPool

SpecPool == InitPool /\ [][NextPool]_vars

(***************************************************************************)
(* LveDescriptorWriter.                                                    *)
(*                                                                         *)
(* One writer, bound at construction to the layout and the pool of the     *)
(* behaviour.  vkUpdateDescriptorSets performs the writes of its array in  *)
(* the order of the array; a set remembers, for each binding, the last     *)
(* descriptor written to it.                                               *)
(***************************************************************************)
\* the VkDescriptorBufferInfo and VkDescriptorImageInfo objects of the clients
BufferInfos == {"bufferInfoA", "bufferInfoB"}
ImageInfos == {"imageInfoA"}

\* the pointer that VkWriteDescriptorSet write{} leaves null
NoInfo == "nullptr"

\* the condition of the first assertion: setLayout.bindings.count(binding) == 1
WriterAccepts(l, binding) == binding \in DOMAIN l.bindings

\* the condition of the second assertion
SingleDescriptor_Unchecked(bindingDescription) == TRUE

SingleDescriptor(bindingDescription) == bindingDescription.descriptorCount = 1

\* the VkWriteDescriptorSet that writeBuffer and writeImage fill in
WriteDescriptorSet(bindingDescription, binding, bufferInfo, imageInfo) ==
    [descriptorType |-> bindingDescription.descriptorType,
     dstBinding |-> binding, pBufferInfo |-> bufferInfo,
     pImageInfo |-> imageInfo, descriptorCount |-> 1,
     dstSet |-> VK_NULL_HANDLE]

\* the common body of writeBuffer and writeImage
QueueWrite(d, op, binding, bufferInfo, imageInfo) ==
    LET d0 == [d EXCEPT !.dcall =
                   [DNewCall(d, op) EXCEPT !.binding = binding]]
    IN  IF ~WriterAccepts(d0.layout, binding)
        THEN DAssertFail(d0, AssertNoBinding)
        ELSE LET bindingDescription == d0.layout.bindings[binding]
             IN  IF ~SingleDescriptor(bindingDescription)
                 THEN DAssertFail(d0, AssertMultiple)
                 ELSE [d0 EXCEPT
                          !.writes = Append(@, WriteDescriptorSet(
                                         bindingDescription, binding,
                                         bufferInfo, imageInfo)),
                          !.dcall.ret = "*this"]

writeBuffer(d, binding, bufferInfo) ==
    QueueWrite(d, "writeBuffer", binding, bufferInfo, NoInfo)

writeImage(d, binding, imageInfo) ==
    QueueWrite(d, "writeImage", binding, NoInfo, imageInfo)

\* what a binding of a set holds after a write
Bound(write) ==
    [descriptorType |-> write.descriptorType,
     pBufferInfo |-> write.pBufferInfo, pImageInfo |-> write.pImageInfo]

\* the sets after the writes of the array ws were performed, first to last
RECURSIVE ApplyWrites(_, _)
ApplyWrites(b, ws) ==
    IF ws = << >> THEN b
    ELSE LET write == Head(ws)
             old == IF write.dstSet \in DOMAIN b THEN b[write.dstSet] ELSE << >>
             new == MapStore(old, write.dstBinding, Bound(write))
         IN  ApplyWrites(MapStore(b, write.dstSet, new), Tail(ws))

vkUpdateDescriptorSets(d, ws) == [d EXCEPT !.bound = ApplyWrites(@, ws)]

\* write.dstSet = set
SetTarget_Stale(write, set) == write

SetTarget(write, set) == [write EXCEPT !.dstSet = set]

\* the statements of overwrite
Retarget(d, set) ==
    LET d0 == [d EXCEPT !.writes =
                   [i \in DOMAIN @ |-> SetTarget(@[i], set)]]
    IN  vkUpdateDescriptorSets(d0, d0.writes)

overwrite(d, set) ==
    [Retarget([d EXCEPT !.dcall =
                   [DNewCall(d, "overwrite") EXCEPT !.set = set]], set)
        EXCEPT !.dcall.ret = "void"]

\* LveDescriptorWriter::build(set), set being the caller's descriptor
writerBuild(d, fragments) ==
    LET d1 == allocateDescriptor(d, d.layout, fragments)
        success == d1.dcall.ret = "true"
        d2 == [d1 EXCEPT !.dcall =
                   [DNewCall(d, "LveDescriptorWriter::build")
                       EXCEPT !.result = d1.dcall.result,
                              !.set = d1.descriptor]]
    IN  IF d1.dfatal # NoError THEN d1
        ELSE IF ~success THEN [d2 EXCEPT !.dcall.ret = "false"]
        ELSE [Retarget(d2, d2.descriptor) EXCEPT !.dcall.ret = "true"]

\* the writer is alive
Writing == dfatal = NoError /\ layout.built /\ pool.built

WriteBuffer ==
    /\ Writing
    /\ Len(writes) < MaxWrites
    /\ \E binding \in BindingIndices, bufferInfo \in BufferInfos :
           DApply(writeBuffer(DCur, binding, bufferInfo))

WriteImage ==
    /\ Writing
    /\ Len(writes) < MaxWrites
    /\ \E binding \in BindingIndices, imageInfo \in ImageInfos :
           DApply(writeImage(DCur, binding, imageInfo))

WriterBuild ==
    /\ Writing
    /\ \E fragments \in {f \in BOOLEAN : pool.fragmented \/ ~f} :
           DApply(writerBuild(DCur, fragments))

\* overwrite is called with a set that is allocated
Overwrite ==
    /\ Writing
    /\ \E set \in pool.sets : DApply(overwrite(DCur, set))

\* the pool of the writer's clients: two descriptors of each type
WriterPoolSizes ==
    <<[type |-> "VK_DESCRIPTOR_TYPE_UNIFORM_BUFFER", descriptorCount |-> 2],
      [type |-> "VK_DESCRIPTOR_TYPE_COMBINED_IMAGE_SAMPLER",
       descriptorCount |-> 2]>>

\* a layout built from one of the samples, a pool, and a new writer
InitWriter ==
    /\ InitRenderer
    /\ width = MaxDim
    /\ height = MaxDim
    /\ \E seq \in SampleBindings, maxSets \in 1 .. MaxSets :
           LET d == AddAll(DInit, seq)
           IN  \E order \in IterationOrders(d.bindings) :
                   DState(LveDescriptorPool(build(d, order, TRUE), maxSets,
                                            "0", WriterPoolSizes, TRUE))

NextWriter ==
    \/ WriteBuffer
    \/ WriteImage
    \/ WriterBuild
    \/ Overwrite

SpecWriter == InitWriter /\ [][NextWriter]_vars

(***************************************************************************)
(* What the properties speak of.                                           *)
(***************************************************************************)
\* the last call made was op, and it is over or still under way
Called(op) == call.op = op

\* the last call made was op and it returned
Returned(op) == call.op = op /\ call.ret # "none"

\* the process goes on: no assertion failed and nothing was thrown
Running == fatal = NoError

\* the last call put no command buffer into the recording state
NoRecordingStarted ==
    \A i \in Slots :
        commandBuffers[i] = "recording" => call.pre.commandBuffers[i] = "recording"

RenderPassOps == {"beginSwapChainRenderPass", "endSwapChainRenderPass"}

(***************************************************************************)
(* C1.  At most one frame is in progress at a time and beginFrame and      *)
(* endFrame alternate strictly: of the calls that returned, the            *)
(* beginFrames that handed out a command buffer are as many as the         *)
(* endFrames or one more; beginFrame passes its assertion only when no     *)
(* frame is in progress and endFrame only when one is; and while the       *)
(* process runs isFrameStarted is true exactly when a beginFrame has       *)
(* returned a command buffer and no endFrame has returned since (an        *)
(* endFrame that waits in recreateSwapChain has not returned).             *)
(***************************************************************************)
C1_FramesAlternate ==
    /\ beginCount - endCount \in {0, 1}
    /\ Running => (isFrameStarted <=> beginCount = endCount + 1)
    /\ Running => (isFrameStarted <=>
                      \/ lastBegin.ret = "buffer"
                      \/ Called("endFrame") /\ pc = "wait")
    /\ Called("beginFrame") /\ fatal # AssertBeginFrame => ~call.pre.isFrameStarted
    /\ Called("beginFrame") /\ fatal = AssertBeginFrame => call.pre.isFrameStarted
    /\ Called("endFrame") /\ fatal # AssertEndFrame => call.pre.isFrameStarted
    /\ Called("endFrame") /\ fatal = AssertEndFrame => ~call.pre.isFrameStarted

\* two frames have been begun and ended in turn
C1_Witness ==
    /\ Returned("endFrame")
    /\ endCount = 2 /\ beginCount = 2
    /\ ~isFrameStarted
    /\ Running

(***************************************************************************)
(* C2.  As claimed: a beginFrame that follows another beginFrame with no   *)
(* endFrame between them hits the assertion, whatever the first returned.  *)
(***************************************************************************)
C2_SecondBeginAlwaysRejected ==
    Called("beginFrame") /\ call.pre.lastBegin.ret # "none"
        => fatal = AssertBeginFrame

(***************************************************************************)
(* C2, amended.  A beginFrame that follows, with no endFrame between, a    *)
(* beginFrame that returned a command buffer hits the assertion and        *)
(* changes nothing; one that follows a beginFrame that returned null is    *)
(* accepted.                                                               *)
(***************************************************************************)
C2_SecondBeginRejectedAfterBuffer ==
    /\ Called("beginFrame") /\ call.pre.lastBegin.ret = "buffer"
        => /\ fatal = AssertBeginFrame
           /\ isFrameStarted
           /\ currentFrameIndex = call.pre.currentFrameIndex
           /\ commandBuffers = call.pre.commandBuffers
    /\ Called("beginFrame") /\ call.pre.lastBegin.ret = "nullptr"
        => fatal # AssertBeginFrame

\* the second of two beginFrames was refused after the first had returned
\* a command buffer
C2_Witness ==
    /\ Called("beginFrame")
    /\ call.pre.lastBegin.ret = "buffer"
    /\ fatal = AssertBeginFrame

(***************************************************************************)
(* C3.  As claimed: when acquire reports VK_ERROR_OUT_OF_DATE_KHR,         *)
(* beginFrame recreates the swapchain and returns null, raises no error,   *)
(* marks no frame in progress, starts no recording and leaves the frame    *)
(* index alone.                                                            *)
(***************************************************************************)
C3_OutdatedReturnsNull ==
    Called("beginFrame") /\ call.status = VK_ERROR_OUT_OF_DATE_KHR /\ pc # "wait"
        => /\ call.recreated
           /\ fatal = NoError
           /\ call.ret = "nullptr"
           /\ ~isFrameStarted
           /\ NoRecordingStarted
           /\ currentFrameIndex = call.pre.currentFrameIndex

(***************************************************************************)
(* C3, amended.  When acquire reports VK_ERROR_OUT_OF_DATE_KHR, beginFrame *)
(* calls recreateSwapChain; it then returns null and raises no error,      *)
(* unless recreateSwapChain throws, which it does when the new swapchain   *)
(* cannot be constructed or its formats differ from the previous one's.    *)
(* In every case no frame is marked in progress, no recording is started   *)
(* and the frame index is unchanged.                                       *)
(***************************************************************************)
C3_OutdatedReturnsNullOrFormatError ==
    Called("beginFrame") /\ call.status = VK_ERROR_OUT_OF_DATE_KHR
        => /\ call.recreated
           /\ ~isFrameStarted
           /\ NoRecordingStarted
           /\ currentFrameIndex = call.pre.currentFrameIndex
           /\ pc # "wait" =>
                CASE lveSwapChain = nullptr
                       -> fatal = ErrCreateSwapChain /\ call.ret = "none"
                  [] OTHER
                       -> IF compareSwapFormats(call.pre.lveSwapChain, lveSwapChain)
                          THEN fatal = NoError /\ call.ret = "nullptr"
                          ELSE fatal = ErrFormatChanged /\ call.ret = "none"

\* a beginFrame whose acquire was outdated has returned null
C3_Witness ==
    /\ Returned("beginFrame")
    /\ call.status = VK_ERROR_OUT_OF_DATE_KHR
    /\ call.ret = "nullptr"
    /\ call.recreated

(***************************************************************************)
(* C4.  As claimed: in beginFrame every acquire status other than          *)
(* VK_SUCCESS and VK_ERROR_OUT_OF_DATE_KHR is fatal; no frame is started   *)
(* and no command buffer is returned for it.                               *)
(***************************************************************************)
C4_OnlySuccessStartsFrame ==
    Called("beginFrame")
        /\ call.status \notin {"none", VK_SUCCESS, VK_ERROR_OUT_OF_DATE_KHR}
        => /\ fatal = ErrAcquire
           /\ ~isFrameStarted
           /\ call.ret = "none"

(***************************************************************************)
(* C4, amended.  In beginFrame every acquire status other than VK_SUCCESS, *)
(* VK_SUBOPTIMAL_KHR and VK_ERROR_OUT_OF_DATE_KHR is fatal: no frame is    *)
(* started, no recording begins and no command buffer is returned.         *)
(* VK_SUBOPTIMAL_KHR is taken as VK_SUCCESS is: the frame is started, and  *)
(* the command buffer is returned unless vkBeginCommandBuffer fails.       *)
(***************************************************************************)
C4_OtherAcquireStatusIsFatal ==
    /\ Called("beginFrame")
        /\ call.status \notin {"none", VK_SUCCESS, VK_SUBOPTIMAL_KHR,
                               VK_ERROR_OUT_OF_DATE_KHR}
        => /\ fatal = ErrAcquire
           /\ ~isFrameStarted
           /\ call.ret = "none"
           /\ commandBuffers = call.pre.commandBuffers
    /\ Called("beginFrame") /\ call.status \in {VK_SUCCESS, VK_SUBOPTIMAL_KHR}
        => /\ fatal \in {NoError, ErrBeginRecording}
           /\ isFrameStarted
           /\ Running => call.ret = "buffer"

\* beginFrame has thrown on a lost device
C4_Witness ==
    /\ Called("beginFrame")
    /\ call.status = VK_ERROR_DEVICE_LOST
    /\ fatal = ErrAcquire

\* the last call saw an outdated or suboptimal result or a resized window
C5_Stale ==
    \/ call.status \in {VK_ERROR_OUT_OF_DATE_KHR, VK_SUBOPTIMAL_KHR}
    \/ call.pre.framebufferResized

(***************************************************************************)
(* C5.  As claimed: endFrame, called with a frame in progress, recreates   *)
(* the swapchain if and only if the submit result is outdated or           *)
(* suboptimal or the window reports a resize; then no error is raised;     *)
(* and any other result that is not VK_SUCCESS is fatal.                   *)
(***************************************************************************)
C5_RecreateIffStale ==
    Called("endFrame") /\ fatal # AssertEndFrame
        => /\ call.recreated <=> C5_Stale
           /\ C5_Stale /\ pc # "wait" => fatal = NoError
           /\ ~C5_Stale /\ call.status \notin {"none", VK_SUCCESS}
                => fatal = ErrPresent

(***************************************************************************)
(* C5, amended.  An endFrame called with a frame in progress whose         *)
(* vkEndCommandBuffer fails throws before it submits and recreates         *)
(* nothing.  Otherwise it recreates the swapchain if and only if the       *)
(* submit result is outdated or suboptimal or the window reports a resize; *)
(* then it raises no error unless recreateSwapChain throws, which it does  *)
(* when the new swapchain cannot be constructed or its formats differ from *)
(* the previous one's; in the other case a result that is not VK_SUCCESS   *)
(* is fatal and VK_SUCCESS is not.                                         *)
(***************************************************************************)
C5_RecreateIffStaleAfterSubmit ==
    Called("endFrame") /\ fatal # AssertEndFrame
        => IF call.status = "none"
           THEN fatal = ErrEndRecording /\ ~call.recreated
           ELSE /\ call.recreated <=> C5_Stale
                /\ C5_Stale /\ pc # "wait" =>
                     CASE lveSwapChain = nullptr -> fatal = ErrCreateSwapChain
                       [] OTHER
                            -> IF compareSwapFormats(call.pre.lveSwapChain,
                                                     lveSwapChain)
                               THEN fatal = NoError
                               ELSE fatal = ErrFormatChanged
                /\ ~C5_Stale =>
                     IF call.status = VK_SUCCESS
                     THEN fatal = NoError
                     ELSE fatal = ErrPresent

\* an endFrame whose submit succeeded has recreated the swapchain because
\* the window had been resized, and has returned
C5_Witness ==
    /\ Returned("endFrame")
    /\ call.status = VK_SUCCESS
    /\ call.pre.framebufferResized
    /\ call.recreated
    /\ Running

(***************************************************************************)
(* C6.  Every endFrame that returns has cleared isFrameStarted and moved   *)
(* the frame index one on modulo MAX_FRAMES_IN_FLIGHT, also when it        *)
(* recreated the swapchain; so the index is the number of returned         *)
(* endFrames modulo MAX_FRAMES_IN_FLIGHT, and after MAX_FRAMES_IN_FLIGHT   *)
(* of them it is back at its initial value 0.                              *)
(***************************************************************************)
C6_IndexCycles ==
    /\ Returned("endFrame")
        => /\ ~isFrameStarted
           /\ currentFrameIndex =
                (call.pre.currentFrameIndex + 1) % MAX_FRAMES_IN_FLIGHT
    /\ currentFrameIndex = endCount % MAX_FRAMES_IN_FLIGHT
    /\ endCount = MAX_FRAMES_IN_FLIGHT => currentFrameIndex = 0

\* MAX_FRAMES_IN_FLIGHT endFrames have returned, the last after a
\* recreation, and the index is back at 0
C6_Witness ==
    /\ Returned("endFrame")
    /\ call.recreated
    /\ endCount = MAX_FRAMES_IN_FLIGHT
    /\ currentFrameIndex = 0

\* the constructor has returned
Constructed == \A i \in Slots : commandBuffers[i] # "unallocated"

C8_Allowed ==
    /\ call.pre.isFrameStarted
    /\ call.buffer = call.pre.currentFrameIndex

(***************************************************************************)
(* C8.  beginSwapChainRenderPass and endSwapChainRenderPass pass their     *)
(* assertions only while a frame is in progress and only for the command   *)
(* buffer of the current frame-in-flight slot, which is the buffer the     *)
(* last beginFrame returned; every other call hits a fatal assertion.      *)
(***************************************************************************)
C8_RenderPassOnlyInFrame ==
    call.op \in RenderPassOps
        => /\ Returned(call.op) <=> C8_Allowed
           /\ Returned(call.op)
                => /\ Running
                   /\ call.pre.lastBegin = BufferBegin(call.buffer)
           /\ ~C8_Allowed
                => /\ fatal \in Assertions
                   /\ commandBuffers = call.pre.commandBuffers
           /\ ~call.pre.isFrameStarted
                => fatal \in {AssertBeginPassFrame, AssertEndPassFrame}
           /\ call.pre.isFrameStarted /\ ~C8_Allowed
                => fatal \in {AssertBeginPassBuffer, AssertEndPassBuffer}

\* a render pass was asked for, during a frame, on the command buffer of
\* the other slot, and the assertion failed
C8_Witness ==
    /\ Called("beginSwapChainRenderPass")
    /\ call.pre.isFrameStarted
    /\ call.buffer # call.pre.currentFrameIndex
    /\ fatal = AssertBeginPassBuffer

(***************************************************************************)
(* C9.  As claimed: recreateSwapChain constructs a swapchain only with an  *)
(* extent whose width and height are both non-zero, so that is the extent  *)
(* of every swapchain the renderer holds.                                  *)
(***************************************************************************)
C9_ExtentNonZero ==
    lveSwapChain # nullptr
        => lveSwapChain.width # 0 /\ lveSwapChain.height # 0

(***************************************************************************)
(* C10.  When a swapchain is recreated with a previous one present, equal  *)
(* image and depth formats make the recreation succeed silently and        *)
(* different ones make it throw, after which nothing is retried: the       *)
(* process ends.  The first creation, in the constructor, compares         *)
(* nothing.  (The new swapchain is one that could be constructed.)         *)
(***************************************************************************)
C10_FormatsCompared ==
    /\ (/\ call.recreated /\ pc # "wait"
        /\ call.pre.lveSwapChain # nullptr
        /\ lveSwapChain # nullptr)
        => IF /\ lveSwapChain.imageFormat = call.pre.lveSwapChain.imageFormat
              /\ lveSwapChain.depthFormat = call.pre.lveSwapChain.depthFormat
           THEN fatal = NoError
           ELSE fatal = ErrFormatChanged /\ pc = "exit"
    /\ fatal = ErrFormatChanged
        => /\ call.recreated
           /\ call.pre.lveSwapChain # nullptr
           /\ pc = "exit"
    /\ Called("LveRenderer")
        => /\ call.pre.lveSwapChain = nullptr
           /\ fatal # ErrFormatChanged

\* a recreation has thrown because only the depth format changed
C10_Witness ==
    /\ call.recreated
    /\ lveSwapChain # nullptr
    /\ call.pre.lveSwapChain # nullptr
    /\ lveSwapChain.imageFormat = call.pre.lveSwapChain.imageFormat
    /\ lveSwapChain.depthFormat # call.pre.lveSwapChain.depthFormat
    /\ fatal = ErrFormatChanged

\* the last call met a recoverable condition: beginFrame an outdated
\* acquire, endFrame an outdated or suboptimal present or a pending resize
C11_Recoverable ==
    \/ Called("beginFrame") /\ call.status = VK_ERROR_OUT_OF_DATE_KHR
    \/ Called("endFrame")
          /\ call.status \in {VK_ERROR_OUT_OF_DATE_KHR, VK_SUBOPTIMAL_KHR}
    \/ Called("endFrame") /\ call.status # "none" /\ call.pre.framebufferResized

(***************************************************************************)
(* C11.  As claimed: a beginFrame whose acquire is outdated and an         *)
(* endFrame whose present is outdated or suboptimal or that finds a resize *)
(* pending recreate the swapchain and never end in a fatal error.          *)
(***************************************************************************)
C11_RecoverableNeverFatal ==
    C11_Recoverable => call.recreated /\ fatal = NoError

(***************************************************************************)
(* C11, amended.  Such a call recreates the swapchain and never raises the *)
(* acquire or present error; it ends in a fatal error only when the        *)
(* recreation itself fails, because the new swapchain cannot be            *)
(* constructed or because its formats differ from the previous one's, and  *)
(* otherwise it returns.                                                   *)
(***************************************************************************)
C11_RecoverableFatalOnlyInRecreation ==
    C11_Recoverable
        => /\ call.recreated
           /\ fatal \in {NoError, ErrCreateSwapChain, ErrFormatChanged}
           /\ fatal = ErrCreateSwapChain => lveSwapChain = nullptr
           /\ fatal = ErrFormatChanged
                => ~compareSwapFormats(call.pre.lveSwapChain, lveSwapChain)
           /\ fatal = NoError /\ pc # "wait" => Returned(call.op)

\* an endFrame whose present was suboptimal has recreated the swapchain
\* and returned
C11_Witness ==
    /\ Returned("endFrame")
    /\ call.status = VK_SUBOPTIMAL_KHR
    /\ ~call.pre.framebufferResized
    /\ call.recreated
    /\ Running


(***************************************************************************)
(* C12.  As claimed: when beginFrame, endFrame or recreateSwapChain (which *)
(* the constructor, beginFrame and endFrame call) raises a fatal error,    *)
(* isFrameStarted, currentFrameIndex and lveSwapChain are as they were     *)
(* before the failing call.                                                *)
(***************************************************************************)
C12_NoPartialState ==
    fatal # NoError /\ call.op \in {"LveRenderer", "beginFrame", "endFrame"}
        => /\ isFrameStarted = call.pre.isFrameStarted
           /\ currentFrameIndex = call.pre.currentFrameIndex
           /\ lveSwapChain = call.pre.lveSwapChain

(***************************************************************************)
(* C13.  As claimed: when the process has ended after an exception, thrown *)
(* in the construction of the application object or later, the exception's *)
(* message is on the error stream and the exit code is EXIT_FAILURE; when  *)
(* it has ended with no fatal failure the exit code is EXIT_SUCCESS.       *)
(***************************************************************************)
C13_FatalExitsWithFailure ==
    /\ pc = "exit" /\ fatal = NoError => exitCode = EXIT_SUCCESS
    /\ pc = "exit" /\ fatal \in Exceptions
        => exitCode = EXIT_FAILURE /\ cerr = fatal

\* beginFrame has recorded nothing on a buffer the GPU still executed, and
\* its acquire had the fence of the swapchain's slot signaled
C14_BeganAfterFence ==
    Called("beginFrame") /\ call.status # "none"
        => /\ call.pre.inFlightFences[call.pre.currentFrame].signaled
           /\ call.pre.commandBuffers[call.pre.currentFrameIndex] # "pending"

(***************************************************************************)
(* C14.  beginFrame goes on to record only after the fence of the          *)
(* swapchain's current slot has signaled, and the command buffer it then   *)
(* records is not pending.  This rests on two facts that hold in every     *)
(* state, whatever the number of recreations (after one the swapchain's    *)
(* slot and the renderer's can differ): every pending command buffer is    *)
(* guarded by an unsignaled fence; and when no frame is in progress and    *)
(* the buffer of the renderer's current slot is pending, the fence that    *)
(* guards it is the one the next acquire waits for.                        *)
(***************************************************************************)
C14_NoReuseWhilePending ==
    /\ C14_BeganAfterFence
    /\ \A cb \in Slots :
            commandBuffers[cb] = "pending"
                => \E c \in Slots : inFlightFences[c] = Guarding(cb)
    /\ ~isFrameStarted /\ commandBuffers[currentFrameIndex] = "pending"
        => inFlightFences[currentFrame] = Guarding(currentFrameIndex)

\* the loop has come back, after a recreation that left the swapchain's
\* slot and the renderer's apart, to a command buffer it had submitted,
\* and has begun to record it again once the GPU had finished with it
C14_Witness ==
    /\ Returned("beginFrame")
    /\ call.ret = "buffer"
    /\ beginCount = MAX_FRAMES_IN_FLIGHT + 1
    /\ call.pre.currentFrame # call.pre.currentFrameIndex
    /\ call.pre.commandBuffers[call.retBuffer] = "recorded"

C16_AtMostOneSkippedFrame ==
    /\ call.ret = "nullptr"
        => /\ Called("beginFrame")
           /\ call.status = VK_ERROR_OUT_OF_DATE_KHR
           /\ call.recreated
           /\ ~isFrameStarted
    /\ Called("beginFrame") /\ call.pre.lastBegin = NullBegin
        => fatal # AssertBeginFrame
    /\ (/\ Called("beginFrame") /\ Running
        /\ call.status \in {VK_SUCCESS, VK_SUBOPTIMAL_KHR})
        => /\ call.ret = "buffer"
           /\ isFrameStarted
           /\ ~call.recreated

\* the beginFrame that follows one that returned null has returned a
\* command buffer
C16_Witness ==
    /\ Returned("beginFrame")
    /\ call.pre.lastBegin = NullBegin
    /\ call.status = VK_SUCCESS
    /\ call.ret = "buffer"

\* what a layout holds for one accepted addBinding call
C17_Registered(a) ==
    [binding |-> a.binding, descriptorType |-> a.descriptorType,
     descriptorCount |-> a.count, stageFlags |-> a.stageFlags]

(***************************************************************************)
(* C17: for every sequence of addBinding calls with pairwise distinct      *)
(* binding indices, the layout that build produces holds exactly the       *)
(* registered bindings: one entry per accepted call, with that call's      *)
(* index, descriptor type, stage flags and count, both in the layout's     *)
(* copy of the map and in the array handed to the driver, in whatever      *)
(* order the calls were made and the map is iterated.                      *)
(***************************************************************************)
C17_LayoutEqualsRegistered ==
    layout.built =>
        /\ Len(layout.pBindings) = Len(added)
        /\ {layout.pBindings[i] : i \in DOMAIN layout.pBindings}
               = {C17_Registered(added[k]) : k \in DOMAIN added}
        /\ DOMAIN layout.bindings = {added[k].binding : k \in DOMAIN added}
        /\ \A k \in DOMAIN added :
               layout.bindings[added[k].binding] = C17_Registered(added[k])

\* a layout of two bindings registered in descending index order, one of
\* them with count 2, and handed to the driver in another order
C17_Witness ==
    /\ layout.built
    /\ Len(added) = 2
    /\ added[1].binding > added[2].binding
    /\ added[1].count = 2
    /\ layout.pBindings[1].binding # added[1].binding

(***************************************************************************)
(* C18: addBinding with a binding index that is already registered fails   *)
(* its assertion, and the builder's bindings, the one registered for that  *)
(* index included, are what they were before the call.                     *)
(***************************************************************************)
C18_DuplicateFailsAndKeeps ==
    (dcall.op = "addBinding" /\ dcall.binding \in DOMAIN dcall.pre.bindings)
        => /\ dfatal = AssertBinding
           /\ bindings = dcall.pre.bindings

\* a duplicate of the second of two registered bindings was refused
C18_Witness ==
    /\ dcall.op = "addBinding"
    /\ dfatal = AssertBinding
    /\ Len(added) = 2
    /\ dcall.binding = added[2].binding

(***************************************************************************)
(* C19: a pool never has more than maxSets sets outstanding; no call of    *)
(* allocateDescriptor raises a fatal error; and a call made when maxSets   *)
(* sets are outstanding returns false and allocates nothing.               *)
(***************************************************************************)
C19_AtCapacityReturnsFalse ==
    /\ pool.built => Cardinality(pool.sets) <= pool.maxSets
    /\ dcall.op = "allocateDescriptor" =>
           /\ dfatal = NoError
           /\ dcall.ret \in {"true", "false"}
           /\ Cardinality(dcall.pre.pool.sets) = dcall.pre.pool.maxSets =>
                  /\ dcall.ret = "false"
                  /\ pool.sets = dcall.pre.pool.sets

\* a pool of more than one set was full when allocateDescriptor was called
C19_Witness ==
    /\ dcall.op = "allocateDescriptor"
    /\ dcall.ret = "false"
    /\ pool.maxSets > 1
    /\ Cardinality(dcall.pre.pool.sets) = pool.maxSets

(***************************************************************************)
(* C20: after resetPool no set of the pool is outstanding, and when N sets *)
(* were outstanding at the reset, the next N calls of allocateDescriptor   *)
(* with the same layout all return true: a call that returns false after a *)
(* reset comes after at least N successful ones.                           *)
(***************************************************************************)
C20_ResetRestoresCapacity ==
    /\ dcall.op = "resetPool" => pool.sets = {}
    /\ (dcall.op = "allocateDescriptor" /\ resetN >= 0 /\ dcall.ret = "false")
           => sinceReset >= resetN

\* a pool filled to capacity with more than one set was reset and filled
\* to capacity again
C20_Witness ==
    /\ dcall.op = "allocateDescriptor"
    /\ dcall.ret = "true"
    /\ resetN > 1
    /\ sinceReset = resetN
    /\ ~PoolHasRoom(pool, layout)

(***************************************************************************)
(* C21: LveDescriptorWriter::build called when the pool has no room for    *)
(* one more set of the layout returns false, performs none of the queued   *)
(* writes, leaves the caller's set handle as it was and changes no         *)
(* descriptor set.                                                         *)
(***************************************************************************)
C21_FailedBuildChangesNothing ==
    (dcall.op = "LveDescriptorWriter::build"
     /\ ~PoolHasRoom(dcall.pre.pool, layout))
        => /\ dcall.ret = "false"
           /\ dfatal = NoError
           /\ bound = dcall.pre.bound
           /\ writes = dcall.pre.writes
           /\ pool.sets = dcall.pre.pool.sets
           /\ descriptor = dcall.pre.descriptor

\* the layout has the binding the last call named, with one descriptor
C22_SingleBinding ==
    /\ dcall.binding \in DOMAIN layout.bindings
    /\ layout.bindings[dcall.binding].descriptorCount = 1

(***************************************************************************)
(* C22: writeBuffer and writeImage fail an assertion and queue nothing     *)
(* when the layout has no binding of the given index, or has it with a     *)
(* descriptor count other than 1; otherwise the call appends exactly one   *)
(* write to the queue, for that binding, with count 1, with the layout's   *)
(* descriptor type for the binding and with the given info.                *)
(***************************************************************************)
C22_WriteChecksBinding ==
    dcall.op \in {"writeBuffer", "writeImage"} =>
        IF C22_SingleBinding
        THEN /\ dfatal = NoError
             /\ Len(writes) = Len(dcall.pre.writes) + 1
             /\ SubSeq(writes, 1, Len(dcall.pre.writes)) = dcall.pre.writes
             /\ LET write == writes[Len(writes)]
                IN  /\ write.dstBinding = dcall.binding
                    /\ write.descriptorCount = 1
                    /\ write.descriptorType
                           = layout.bindings[dcall.binding].descriptorType
                    /\ (dcall.op = "writeBuffer")
                           = (write.pBufferInfo \in BufferInfos)
                    /\ (dcall.op = "writeImage")
                           = (write.pImageInfo \in ImageInfos)
        ELSE /\ writes = dcall.pre.writes
             /\ dfatal = IF dcall.binding \in DOMAIN layout.bindings
                         THEN AssertMultiple ELSE AssertNoBinding

\* writeImage was refused for a binding that the layout declares with two
\* descriptors
C22_Witness ==
    /\ dcall.op = "writeImage"
    /\ dcall.binding \in DOMAIN layout.bindings
    /\ layout.bindings[dcall.binding].descriptorCount = 2
    /\ dfatal = AssertMultiple

(***************************************************************************)
(* C23: overwrite leaves the queue of writes as it was except that every   *)
(* write now targets the given set, and an overwrite of the set that the   *)
(* call before it (an overwrite or a successful build) has just written    *)
(* leaves every descriptor set as it was.                                  *)
(***************************************************************************)
C23_OverwriteIdempotent ==
    dcall.op = "overwrite" =>
        /\ dfatal = NoError
        /\ DOMAIN writes = DOMAIN dcall.pre.writes
        /\ \A i \in DOMAIN writes :
               writes[i] = [dcall.pre.writes[i] EXCEPT !.dstSet = dcall.set]
        /\ (/\ dcall.pre.op \in {"overwrite", "LveDescriptorWriter::build"}
            /\ dcall.pre.ret \in {"void", "true"}
            /\ dcall.pre.set = dcall.set)
               => bound = dcall.pre.bound

\* two writes were applied a second time to the same set, while another
\* set is allocated
C23_Witness ==
    /\ dcall.op = "overwrite"
    /\ dcall.pre.op = "overwrite"
    /\ dcall.pre.set = dcall.set
    /\ Len(writes) = 2
    /\ Cardinality(pool.sets) > 1
    /\ dcall.set \in DOMAIN bound

(***************************************************************************)
(* C24: the queue of a writer never holds two writes for the same binding  *)
(* index.                                                                  *)
(***************************************************************************)
C24_OneWritePerBinding ==
    \A i, j \in DOMAIN writes :
        i # j => writes[i].dstBinding # writes[j].dstBinding

\* the orders in which the queue ws can be arranged
C25_Arrangements(ws) ==
    {[i \in DOMAIN ws |-> ws[order[i]]] :
        order \in {o \in [DOMAIN ws -> DOMAIN ws] :
                      \A i, j \in DOMAIN ws : i # j => o[i] # o[j]}}

(***************************************************************************)
(* C25: what the sets hold after overwrite or a successful build is what   *)
(* they hold when the queued writes are performed in any other order.      *)
(***************************************************************************)
C25_OrderIndependent ==
    (\/ dcall.op = "overwrite"
     \/ dcall.op = "LveDescriptorWriter::build" /\ dcall.ret = "true")
        => \A ws \in C25_Arrangements(writes) :
               ApplyWrites(dcall.pre.bound, ws) = bound

(***************************************************************************)
(* C26: when a recreation has constructed a new swapchain, or has failed   *)
(* to and released the previous one, the device is idle: every fence is    *)
(* signaled and no command buffer is pending, whatever was submitted       *)
(* before the recreation, the submission of the same endFrame included.    *)
(***************************************************************************)
C26_IdleWhenReplaced ==
    (/\ call.recreated
     /\ pc # "wait"
     /\ call.created # nullptr \/ fatal = ErrCreateSwapChain)
        => /\ \A c \in Slots : inFlightFences[c].signaled
           /\ \A i \in Slots : commandBuffers[i] # "pending"
           /\ oldSwapChain = nullptr

\* endFrame submitted a frame while the frame before it was still pending,
\* and then replaced the swapchain
C26_Witness ==
    /\ Returned("endFrame")
    /\ call.created # nullptr
    /\ lveSwapChain = call.created
    /\ \E i \in Slots : call.pre.commandBuffers[i] = "pending"

(***************************************************************************)
(* C27: a recreation completes once the window reports a non-zero extent   *)
(* (and the formats match), and its zero-extent wait ends as soon as both  *)
(* dimensions are non-zero.  The part that can be violated in finitely     *)
(* many steps: the renderer is never blocked in the wait while both        *)
(* dimensions of the window are non-zero, and a renderer constructed on a  *)
(* window that was never resized got past the wait only with both          *)
(* dimensions non-zero.                                                    *)
(***************************************************************************)
C27_WaitEndsAtNonZero ==
    /\ pc = "wait" => (width = 0 \/ height = 0)
    /\ (call.op = "LveRenderer" /\ pc = "idle" /\ ~framebufferResized)
           => (width # 0 /\ height # 0)

\* the extent that the last getExtent() returned when a step begins that
\* constructs a swapchain: read at line 38 before the renderer blocked, or
\* read at line 36 from the window as the call finds it
C28_LastRead ==
    IF pc = "wait" THEN extent ELSE [width |-> width, height |-> height]

(***************************************************************************)
(* C28: the swapchain that recreateSwapChain constructs is given the       *)
(* extent, width and height, that the last getExtent() before the          *)
(* construction returned.                                                  *)
(***************************************************************************)
C28_ExtentAsLastRead ==
    [][(call' # call /\ call'.created # nullptr)
          => /\ call'.created.width = C28_LastRead.width
             /\ call'.created.height = C28_LastRead.height]_vars

(***************************************************************************)
(* C29: no resize is lost.  Every step in which the window's size changes  *)
(* leaves the resized flag set, also a step taken while a recreation       *)
(* waits for window events; the flag is cleared only in a step of endFrame *)
(* that goes on to recreate the swapchain; and an endFrame that finds the  *)
(* flag set and neither fails its assertion nor throws recreates the       *)
(* swapchain.                                                              *)
(***************************************************************************)
C29_NoResizeLost ==
    [][/\ (width' # width \/ height' # height) => framebufferResized'
       /\ (framebufferResized /\ ~framebufferResized')
              => (call'.op = "endFrame" /\ call'.recreated /\ pc = "idle")
       /\ (/\ pc = "idle"
           /\ call' # call
           /\ call'.op = "endFrame"
           /\ framebufferResized
           /\ fatal' = NoError)
              => call'.recreated]_vars

\* endFrame cleared the flag and waited in its recreation, a resize came
\* during the wait, and endFrame has returned with the flag set
C29_Witness ==
    /\ Returned("endFrame")
    /\ call.recreated
    /\ call.pre.framebufferResized
    /\ framebufferResized
    /\ lveSwapChain = call.created

(***************************************************************************)
(* C30: the frame index is always one of 0 .. MAX_FRAMES_IN_FLIGHT-1, the  *)
(* slots of the allocated command buffers; only a step of endFrame changes *)
(* it; and the command buffer that an endFrame submits, the one at the     *)
(* index, is the one that the beginFrame before it returned, and no other  *)
(* buffer is submitted by the step.                                        *)
(***************************************************************************)
C30_IndexAddressesBuffers ==
    [][/\ currentFrameIndex \in Slots
       /\ currentFrameIndex' \in Slots
       /\ DOMAIN commandBuffers' = Slots
       /\ currentFrameIndex' # currentFrameIndex => call'.op = "endFrame"
       /\ (/\ pc = "idle"
           /\ call' # call
           /\ call'.op = "endFrame"
           /\ call'.status # "none")
              => /\ lastBegin = BufferBegin(currentFrameIndex)
                 /\ commandBuffers[currentFrameIndex] # "pending"
                 /\ commandBuffers'[currentFrameIndex]
                        \in {"pending", "recorded"}
                 /\ \A i \in Slots \ {currentFrameIndex} :
                        commandBuffers'[i] = "pending"
                            => commandBuffers[i] = "pending"]_vars

\* the frame of the last slot was begun, submitted and presented, and the
\* index is back at the first slot
C30_Witness ==
    /\ Returned("endFrame")
    /\ call.status = VK_SUCCESS
    /\ call.pre.lastBegin = BufferBegin(MAX_FRAMES_IN_FLIGHT - 1)
    /\ call.pre.currentFrameIndex = MAX_FRAMES_IN_FLIGHT - 1
    /\ currentFrameIndex = 0
====
